---- MODULE Spec2Model ----
(***************************************************************************)
(* A model of src/server.js: the string analyzer, the natural-language     *)
(* query parser, the two filter chains, the Express route table and the    *)
(* request handlers with their file-read / file-write await points.        *)
(*                                                                         *)
(* Text is modelled at the character level: a JavaScript string is a       *)
(* sequence of one-character strings.  JavaScript values whose type        *)
(* matters (a request body's value, a record id against a path parameter)  *)
(* carry their type tag.                                                   *)
(***************************************************************************)
EXTENDS Integers, Sequences, FiniteSets, TLC

VARIABLES file, slots, call

vars == <<file, slots, call>>

(***************************************************************************)
(* Bounds of the model.                                                    *)
(***************************************************************************)
\* concurrent requests the server has in flight
MaxInFlight == 2
\* distinct outcomes of Math.random() * 10000 that are drawn
MaxId == 2
\* records the store may hold before POST is no longer offered
MaxStore == 3
\* phrases / fragments concatenated into one natural-language query
MaxItems == 2
\* records of a collection handed to a filter chain directly
MaxRecs == 3

(***************************************************************************)
(* Characters and strings.                                                 *)
(***************************************************************************)
Digits == <<"0", "1", "2", "3", "4", "5", "6", "7", "8", "9">>

LowerLetters ==
  <<"a", "b", "c", "d", "e", "f", "g", "h", "i", "j", "k", "l", "m",
    "n", "o", "p", "q", "r", "s", "t", "u", "v", "w", "x", "y", "z">>

UpperLetters ==
  <<"A", "B", "C", "D", "E", "F", "G", "H", "I", "J", "K", "L", "M",
    "N", "O", "P", "Q", "R", "S", "T", "U", "V", "W", "X", "Y", "Z">>

\* a letter outside ASCII (U+00F1, n with tilde): alphanumeric, not in [a-zA-Z0-9]
NonAsciiLetter == "U+00F1"

Range(s) == {s[i] : i \in 1..Len(s)}

IsDigit(c) == c \in Range(Digits)

IsLowerLetter(c) == c \in Range(LowerLetters)

IsUpperLetter(c) == c \in Range(UpperLetters)

\* the character class [a-zA-Z0-9] of the palindrome regular expression
IsAsciiAlnum(c) == IsDigit(c) \/ IsLowerLetter(c) \/ IsUpperLetter(c)

\* the class \s, and what String.prototype.trim removes
IsWhitespace(c) == c \in {" ", "\t", "\n"}

DigitVal(c) == (CHOOSE i \in 1..10 : Digits[i] = c) - 1

ToLowerChar(c) ==
  IF IsUpperLetter(c)
    THEN LowerLetters[CHOOSE i \in 1..26 : UpperLetters[i] = c]
    ELSE c

\* String.prototype.toLowerCase
toLowerCase(s) == [i \in 1..Len(s) |-> ToLowerChar(s[i])]

\* whether pat occurs in s starting at index i (1-based)
StartsAt(s, pat, i) ==
  /\ i >= 1
  /\ i + Len(pat) - 1 <= Len(s)
  /\ SubSeq(s, i, i + Len(pat) - 1) = pat

\* String.prototype.includes
includes(s, pat) == \E i \in 1..(Len(s) + 1) : StartsAt(s, pat, i)

Reverse(s) == [i \in 1..Len(s) |-> s[Len(s) + 1 - i]]

\* String.prototype.trim
trim(s) ==
  IF \A i \in 1..Len(s) : IsWhitespace(s[i])
    THEN <<>>
    ELSE LET a == CHOOSE i \in 1..Len(s) :
                    /\ ~IsWhitespace(s[i])
                    /\ \A j \in 1..(i - 1) : IsWhitespace(s[j])
             b == CHOOSE i \in 1..Len(s) :
                    /\ ~IsWhitespace(s[i])
                    /\ \A j \in (i + 1)..Len(s) : IsWhitespace(s[j])
         IN  SubSeq(s, a, b)

\* String.prototype.split(/\s+/): the pieces between maximal whitespace runs
\* (a leading or trailing run leaves an empty piece, as in JavaScript)
RECURSIVE SplitFrom(_, _, _)
SplitFrom(s, i, piece) ==
  IF i > Len(s)
    THEN <<piece>>
    ELSE IF IsWhitespace(s[i])
      THEN LET e == CHOOSE k \in i..Len(s) :
                      /\ \A m \in i..k : IsWhitespace(s[m])
                      /\ (k = Len(s) \/ ~IsWhitespace(s[k + 1]))
           IN  <<piece>> \o SplitFrom(s, e + 1, <<>>)
      ELSE SplitFrom(s, i + 1, Append(piece, s[i]))

splitWhitespace(s) == SplitFrom(s, 1, <<>>)

(***************************************************************************)
(* parseInt without a radix: leading whitespace, an optional sign, an      *)
(* optional 0x prefix, then the longest prefix of digits; NaN without one.  *)
(***************************************************************************)
NaN == [nan |-> TRUE, n |-> 0]

Num(n) == [nan |-> FALSE, n |-> n]

HexDigits == <<"a", "b", "c", "d", "e", "f">>

IsHexDigit(c) == IsDigit(c) \/ ToLowerChar(c) \in Range(HexDigits)

HexVal(c) ==
  IF IsDigit(c)
    THEN DigitVal(c)
    ELSE 9 + (CHOOSE i \in 1..6 : HexDigits[i] = ToLowerChar(c))

\* whether c is a digit of the radix: hexadecimal digits when hex
IsRadixDigit(c, hex) == IF hex THEN IsHexDigit(c) ELSE IsDigit(c)

\* the end of the longest run of digits (hexadecimal ones when hex) that
\* starts at j (j - 1 when s[j] is not one)
RunEnd(s, j, hex) ==
  CHOOSE k \in (j - 1)..Len(s) :
    /\ \A m \in j..k : IsRadixDigit(s[m], hex)
    /\ (k = Len(s) \/ ~IsRadixDigit(s[k + 1], hex))

RECURSIVE ValueOf(_, _, _)
ValueOf(ds, radix, acc) ==
  IF ds = <<>>
    THEN acc
    ELSE ValueOf(Tail(ds), radix, acc * radix + HexVal(Head(ds)))

\* the digits of a trimmed, unsigned text: after 0x hexadecimal ones
DigitsValue(body, hex) ==
  IF hex
    THEN ValueOf(SubSeq(body, 3, RunEnd(body, 3, TRUE)), 16, 0)
    ELSE ValueOf(SubSeq(body, 1, RunEnd(body, 1, FALSE)), 10, 0)

HasDigits(body, hex) ==
  IF hex THEN RunEnd(body, 3, TRUE) >= 3 ELSE RunEnd(body, 1, FALSE) >= 1

ParseUnsigned(neg, body, hex) ==
  IF HasDigits(body, hex)
    THEN Num(IF neg THEN 0 - DigitsValue(body, hex) ELSE DigitsValue(body, hex))
    ELSE NaN

ParseSigned(neg, body) ==
  ParseUnsigned(neg, body,
                Len(body) >= 2 /\ body[1] = "0" /\ body[2] \in {"x", "X"})

ParseTrimmed(s) ==
  ParseSigned(Len(s) >= 1 /\ s[1] = "-",
              IF Len(s) >= 1 /\ s[1] \in {"-", "+"} THEN Tail(s) ELSE s)

parseInt(str) == ParseTrimmed(trim(str))

(***************************************************************************)
(* analyzeString (server.js 24-67).  The id is the outcome of              *)
(* Math.random() * 10000, a number, passed in as the draw.  The SHA-256    *)
(* digest and the created_at timestamp are not modelled.                   *)
(***************************************************************************)
Count(s, c) == Cardinality({i \in 1..Len(s) : s[i] = c})

\* value.replace(/[^a-zA-Z0-9]/g, "").toLowerCase()
cleaned(value) == toLowerCase(SelectSeq(value, IsAsciiAlnum))

IsNonEmpty(word) == Len(word) > 0

analyzeString(value, id) ==
  [id         |-> id,
   value      |-> value,
   properties |->
     [length            |-> Len(value),
      is_palindrome     |-> cleaned(value) = Reverse(cleaned(value)),
      unique_characters |-> Cardinality(Range(value)),
      word_count        |-> Len(SelectSeq(splitWhitespace(trim(value)), IsNonEmpty)),
      character_frequency_map |-> [c \in Range(value) |-> Count(value, c)]]]

\* isCharPresent (server.js 76-78)
isCharPresent(str, char) == includes(str, char)

\* a changed checkIfStringExists: only the first record is looked at
checkIfStringExists_first(value, data) ==
  Len(data) >= 1 /\ data[1].value = value

\* checkIfStringExists (server.js 87-89): data.some(item => item.value === value)
checkIfStringExists(value, data) == \E i \in 1..Len(data) : data[i].value = value

(***************************************************************************)
(* JavaScript objects with optional keys (filters, req.query) are          *)
(* functions from the set of keys present.                                 *)
(***************************************************************************)
EmptyObject == [k \in {} |-> 0]

Put(obj, key, val) ==
  [k \in (DOMAIN obj) \cup {key} |-> IF k = key THEN val ELSE obj[k]]

Has(obj, key) == key \in DOMAIN obj

(***************************************************************************)
(* parseNaturalLanguageQuery (server.js 97-135).                           *)
(***************************************************************************)
SINGLE_WORD ==
  <<"s", "i", "n", "g", "l", "e", " ", "w", "o", "r", "d">>

PALINDROMIC ==
  <<"p", "a", "l", "i", "n", "d", "r", "o", "m", "i", "c">>

LONGER_THAN ==
  <<"l", "o", "n", "g", "e", "r", " ", "t", "h", "a", "n", " ">>

SHORTER_THAN ==
  <<"s", "h", "o", "r", "t", "e", "r", " ", "t", "h", "a", "n", " ">>

CHARACTERS ==
  <<" ", "c", "h", "a", "r", "a", "c", "t", "e", "r", "s">>

CONTAINING_THE_LETTER ==
  <<"c", "o", "n", "t", "a", "i", "n", "i", "n", "g", " ", "t", "h", "e",
    " ", "l", "e", "t", "t", "e", "r", " ">>

CONTAIN_THE_FIRST_VOWEL ==
  <<"c", "o", "n", "t", "a", "i", "n", " ", "t", "h", "e", " ", "f", "i",
    "r", "s", "t", " ", "v", "o", "w", "e", "l">>

Min(S) == CHOOSE x \in S : \A y \in S : x <= y

\* the digits s[j..k], at least one, are followed by " characters"
DigitsThenCharacters(s, j, k) == k >= j /\ StartsAt(s, CHARACTERS, k + 1)

\* whether /<prefix>(\d+) characters/ matches s at index i: the digits are
\* the whole run after the prefix (a shorter run is followed by a digit,
\* never by the blank of " characters")
NumberPhraseAt(s, prefix, i) ==
  /\ StartsAt(s, prefix, i)
  /\ DigitsThenCharacters(s, i + Len(prefix), RunEnd(s, i + Len(prefix), FALSE))

\* group 1 of the leftmost of the matches that start at the indices in at
FirstNumberGroup(s, prefix, at) ==
  IF at = {}
    THEN <<>>
    ELSE <<SubSeq(s, Min(at) + Len(prefix),
                  RunEnd(s, Min(at) + Len(prefix), FALSE))>>

\* s.match(/<prefix>(\d+) characters/): <<>> for null, else <<group 1>> of
\* the leftmost match
matchNumberPhrase(s, prefix) ==
  FirstNumberGroup(s, prefix, {i \in 1..Len(s) : NumberPhraseAt(s, prefix, i)})

LetterPhraseAt(s, i) ==
  /\ StartsAt(s, CONTAINING_THE_LETTER, i)
  /\ i + Len(CONTAINING_THE_LETTER) <= Len(s)
  /\ IsLowerLetter(s[i + Len(CONTAINING_THE_LETTER)])

FirstLetterGroup(s, at) ==
  IF at = {} THEN <<>> ELSE <<s[Min(at) + Len(CONTAINING_THE_LETTER)]>>

\* s.match(/containing the letter ([a-z])/)
matchLetterPhrase(s) ==
  FirstLetterGroup(s, {i \in 1..Len(s) : LetterPhraseAt(s, i)})

\* if (cond) { obj[key] = val }
PutIf(cond, obj, key, val) == IF cond THEN Put(obj, key, val) ELSE obj

\* the value of the first group of a match, as parseInt reads it (0 when
\* there is no match and the value is not used)
GroupNumber(match) == IF match = <<>> THEN 0 ELSE parseInt(match[1]).n

GroupText(match) == IF match = <<>> THEN <<>> ELSE <<match[1]>>

\* a changed BuildFilters: the letter of "containing the letter" is written
\* after the 'a' of "contain the first vowel"
BuildFilters_letterLast(lowerQuery, longerMatch, letterMatch, shorterMatch) ==
  PutIf(shorterMatch # <<>>,
    PutIf(letterMatch # <<>>,
      PutIf(includes(lowerQuery, CONTAIN_THE_FIRST_VOWEL),
        PutIf(longerMatch # <<>>,
          PutIf(includes(lowerQuery, PALINDROMIC),
            PutIf(includes(lowerQuery, SINGLE_WORD),
                  EmptyObject, "word_count", 1),
            "is_palindrome", TRUE),
          "min_length", GroupNumber(longerMatch) + 1),
        "contains_character", <<"a">>),
      "contains_character", GroupText(letterMatch)),
    "max_length", GroupNumber(shorterMatch) - 1)

\* the six if-statements of the parser, the first innermost: single word,
\* palindromic, longer than, containing the letter, contain the first
\* vowel, shorter than
BuildFilters(lowerQuery, longerMatch, letterMatch, shorterMatch) ==
  PutIf(shorterMatch # <<>>,
    PutIf(includes(lowerQuery, CONTAIN_THE_FIRST_VOWEL),
      PutIf(letterMatch # <<>>,
        PutIf(longerMatch # <<>>,
          PutIf(includes(lowerQuery, PALINDROMIC),
            PutIf(includes(lowerQuery, SINGLE_WORD),
                  EmptyObject, "word_count", 1),
            "is_palindrome", TRUE),
          "min_length", GroupNumber(longerMatch) + 1),
        "contains_character", GroupText(letterMatch)),
      "contains_character", <<"a">>),
    "max_length", GroupNumber(shorterMatch) - 1)

ParseLowered(lowerQuery) ==
  BuildFilters(lowerQuery,
               matchNumberPhrase(lowerQuery, LONGER_THAN),
               matchLetterPhrase(lowerQuery),
               matchNumberPhrase(lowerQuery, SHORTER_THAN))

\* a changed parseNaturalLanguageQuery: the query is not lower-cased
parseNaturalLanguageQuery_cased(query) == ParseLowered(query)

parseNaturalLanguageQuery(query) == ParseLowered(toLowerCase(query))

\* hasConflictingFilters (server.js 143-153)
hasConflictingFilters(filters) ==
  /\ Has(filters, "min_length")
  /\ Has(filters, "max_length")
  /\ filters["min_length"] > filters["max_length"]

(***************************************************************************)
(* The filter chain of GET /strings/filter-by-natural-language             *)
(* (server.js 431-457), one operator per if-statement, in the code's order.*)
(***************************************************************************)
NLStep(k, filtered, parsedFilters) ==
  CASE k = 1 ->
         IF Has(parsedFilters, "is_palindrome")
           THEN LET P(item) == item.properties.is_palindrome
                                 = parsedFilters["is_palindrome"]
                IN  SelectSeq(filtered, P)
           ELSE filtered
    [] k = 2 ->
         IF Has(parsedFilters, "min_length")
           THEN LET P(item) == item.properties.length >= parsedFilters["min_length"]
                IN  SelectSeq(filtered, P)
           ELSE filtered
    [] k = 3 ->
         IF Has(parsedFilters, "max_length")
           THEN LET P(item) == item.properties.length <= parsedFilters["max_length"]
                IN  SelectSeq(filtered, P)
           ELSE filtered
    [] k = 4 ->
         IF Has(parsedFilters, "word_count")
           THEN LET P(item) == item.properties.word_count
                                 = parsedFilters["word_count"]
                IN  SelectSeq(filtered, P)
           ELSE filtered
    [] k = 5 ->
         IF Has(parsedFilters, "contains_character")
           THEN LET P(item) ==
                      isCharPresent(item.value, parsedFilters["contains_character"])
                IN  SelectSeq(filtered, P)
           ELSE filtered

RECURSIVE NLApply(_, _, _)
NLApply(order, filtered, parsedFilters) ==
  IF order = <<>>
    THEN filtered
    ELSE NLApply(Tail(order), NLStep(Head(order), filtered, parsedFilters),
                 parsedFilters)

\* the order of the if-statements in the source
SourceOrder == <<1, 2, 3, 4, 5>>

NLFilter(data, parsedFilters) == NLApply(SourceOrder, data, parsedFilters)

(***************************************************************************)
(* The filter chain of GET /strings (server.js 302-332) over req.query,    *)
(* whose values are strings.                                               *)
(***************************************************************************)
TRUE_TEXT == <<"t", "r", "u", "e">>

\* a changed FilterMinLength: > for >=
FilterMinLength_strict(filtered, minLen) ==
  IF minLen.nan
    THEN filtered
    ELSE SelectSeq(filtered, LAMBDA item : item.properties.length > minLen.n)

\* if (!isNaN(minLen)) filtered = filtered.filter(length >= minLen)
FilterMinLength(filtered, minLen) ==
  IF minLen.nan
    THEN filtered
    ELSE SelectSeq(filtered, LAMBDA item : item.properties.length >= minLen.n)

FilterMaxLength(filtered, maxLen) ==
  IF maxLen.nan
    THEN filtered
    ELSE SelectSeq(filtered, LAMBDA item : item.properties.length <= maxLen.n)

FilterWordCount(filtered, wc) ==
  IF wc.nan
    THEN filtered
    ELSE SelectSeq(filtered, LAMBDA item : item.properties.word_count = wc.n)

QStep(k, filtered, query) ==
  CASE k = 1 ->
         IF Has(query, "is_palindrome")
           THEN SelectSeq(filtered,
                  LAMBDA item : item.properties.is_palindrome
                                  = (query["is_palindrome"] = TRUE_TEXT))
           ELSE filtered
    [] k = 2 ->
         IF Has(query, "min_length")
           THEN FilterMinLength(filtered, parseInt(query["min_length"]))
           ELSE filtered
    [] k = 3 ->
         IF Has(query, "max_length")
           THEN FilterMaxLength(filtered, parseInt(query["max_length"]))
           ELSE filtered
    [] k = 4 ->
         IF Has(query, "word_count")
           THEN FilterWordCount(filtered, parseInt(query["word_count"]))
           ELSE filtered
    [] k = 5 ->
         IF Has(query, "contains_character")
           THEN SelectSeq(filtered,
                  LAMBDA item : isCharPresent(item.value, query["contains_character"]))
           ELSE filtered

RECURSIVE QApply(_, _, _)
QApply(order, filtered, query) ==
  IF order = <<>>
    THEN filtered
    ELSE QApply(Tail(order), QStep(Head(order), filtered, query), query)

QFilter(data, query) == QApply(SourceOrder, data, query)

(***************************************************************************)
(* JavaScript values whose type matters: typeof and === see the tag.       *)
(***************************************************************************)
JSUndefined == [t |-> "undefined", n |-> 0, s |-> <<>>]

JSNumber(n) == [t |-> "number", n |-> n, s |-> <<>>]

JSString(s) == [t |-> "string", n |-> 0, s |-> s]

\* a === b: the same type and the same value, no conversion
StrictEquals(a, b) == a.t = b.t /\ a.n = b.n /\ a.s = b.s

\* String(n) for a non-negative integer n
RECURSIVE NumberToString(_)
NumberToString(n) ==
  IF n < 10
    THEN <<Digits[n + 1]>>
    ELSE Append(NumberToString(n \div 10), Digits[(n % 10) + 1])

(***************************************************************************)
(* The store: signal.json.  It is missing, holds text that is not JSON,    *)
(* holds JSON that is not an array, or holds an array of records.          *)
(***************************************************************************)
FileMissing == [kind |-> "missing", data |-> <<>>]

FileInvalid == [kind |-> "invalid", data |-> <<>>]

FileNonArray == [kind |-> "nonarray", data |-> <<>>]

FileArray(data) == [kind |-> "array", data |-> data]

\* the load block of POST, GET /strings, the natural-language route and
\* DELETE (server.js 212-221, 292-301, 420-429, 485-494): readFile,
\* JSON.parse, Array.isArray, and an empty catch
loadOrEmpty(f) == IF f.kind = "array" THEN f.data ELSE <<>>

(***************************************************************************)
(* Requests, responses and the route table in registration order.          *)
(***************************************************************************)
SEG_ME == <<"m", "e">>

SEG_STRINGS == <<"s", "t", "r", "i", "n", "g", "s">>

SEG_FILTER_NL ==
  <<"f", "i", "l", "t", "e", "r", "-", "b", "y", "-", "n", "a", "t", "u",
    "r", "a", "l", "-", "l", "a", "n", "g", "u", "a", "g", "e">>

Lit(text) == [param |-> FALSE, text |-> text]

Param == [param |-> TRUE, text |-> <<>>]

\* app.get / app.post / app.delete in the order server.js registers them
\* (lines 164, 198, 267, 359, 389, 480)
Routes ==
  << [method |-> "GET",    pattern |-> <<Lit(SEG_ME)>>, handler |-> "getMe"],
     [method |-> "POST",   pattern |-> <<Lit(SEG_STRINGS)>>,
      handler |-> "postStrings"],
     [method |-> "GET",    pattern |-> <<Lit(SEG_STRINGS)>>,
      handler |-> "getStrings"],
     [method |-> "GET",    pattern |-> <<Lit(SEG_STRINGS), Param>>,
      handler |-> "getStringById"],
     [method |-> "GET",    pattern |-> <<Lit(SEG_STRINGS), Lit(SEG_FILTER_NL)>>,
      handler |-> "filterByNaturalLanguage"],
     [method |-> "DELETE", pattern |-> <<Lit(SEG_STRINGS), Param>>,
      handler |-> "deleteString"] >>

RouteMatches(route, req) ==
  /\ route.method = req.method
  /\ Len(route.pattern) = Len(req.path)
  /\ \A i \in 1..Len(route.pattern) :
       route.pattern[i].param \/ route.pattern[i].text = req.path[i]

\* Express tries the routes in registration order and the first that matches
\* handles the request; the catch-all middleware (server.js 515-521) is last
Dispatch(req) ==
  IF \E i \in 1..Len(Routes) : RouteMatches(Routes[i], req)
    THEN Routes[CHOOSE i \in 1..Len(Routes) :
                  /\ RouteMatches(Routes[i], req)
                  /\ \A j \in 1..(i - 1) : ~RouteMatches(Routes[j], req)].handler
    ELSE "notFound"

NoRequest ==
  [method |-> "", path |-> <<>>, query |-> EmptyObject, body |-> JSUndefined]

\* a response: the status and what the JSON body carries
Response(status, kind, data, filters) ==
  [status |-> status, kind |-> kind, data |-> data, filters |-> filters]

NoResponse == Response(0, "", <<>>, EmptyObject)

ErrorResponse(status) == Response(status, "error", <<>>, EmptyObject)

IdleSlot ==
  [pc |-> "idle", req |-> NoRequest, handler |-> "", data |-> <<>>,
   res |-> NoResponse]

Done(slot, res) == [slot EXCEPT !.pc = "done", !.data = <<>>, !.res = res]

Slots == 1..MaxInFlight

Ids == 1..MaxId

\* a changed checkKeys: every key is asked for
checkKeys_every(obj, keys) == \A key \in keys : Has(obj, key)

\* checkKeys (server.js 249-250)
checkKeys(obj, keys) == \E key \in keys : Has(obj, key)

RecognizedKeys ==
  {"is_palindrome", "min_length", "max_length", "word_count",
   "contains_character"}

(***************************************************************************)
(* The synchronous part of each handler, from the call to its first await. *)
(***************************************************************************)
\* POST /strings (server.js 200-214)
PostStart(slot) ==
  LET value == slot.req.body
  IN  IF value.t # "string" \/ value.s = <<>> \/ trim(value.s) = <<>>
        THEN Done(slot, ErrorResponse(400))
        ELSE [slot EXCEPT !.pc = "read"]

\* GET /strings (server.js 269-294)
GetStringsStart(slot) ==
  IF DOMAIN slot.req.query # {} /\ ~checkKeys(slot.req.query, RecognizedKeys)
    THEN Done(slot, ErrorResponse(400))
    ELSE [slot EXCEPT !.pc = "read"]

\* GET /strings/filter-by-natural-language (server.js 403-422): the parsed
\* filters are rejected when empty or conflicting
FilterNLCheck(slot, parsedFilters) ==
  IF DOMAIN parsedFilters = {}
    THEN Done(slot, ErrorResponse(400))
    ELSE IF hasConflictingFilters(parsedFilters)
      THEN Done(slot, ErrorResponse(422))
      ELSE [slot EXCEPT !.pc = "read"]

\* GET /strings/filter-by-natural-language (server.js 391-401)
FilterNLStart(slot) ==
  IF \/ ~Has(slot.req.query, "query")
     \/ slot.req.query["query"] = <<>>
     \/ trim(slot.req.query["query"]) = <<>>
    THEN Done(slot, ErrorResponse(400))
    ELSE FilterNLCheck(slot, parseNaturalLanguageQuery(slot.req.query["query"]))

\* the handler runs from its call to its first await, or to its response
Start(slot) ==
  CASE slot.handler = "postStrings"             -> PostStart(slot)
    [] slot.handler = "getStrings"              -> GetStringsStart(slot)
    [] slot.handler = "filterByNaturalLanguage" -> FilterNLStart(slot)
    [] slot.handler = "getStringById"           -> [slot EXCEPT !.pc = "read"]
    [] slot.handler = "deleteString"            -> [slot EXCEPT !.pc = "read"]
    [] slot.handler = "getMe"                   -> [slot EXCEPT !.pc = "fetch"]
    [] OTHER                                    -> Done(slot, ErrorResponse(404))

\* a request arrives in a free slot, is dispatched, and its handler runs to
\* its first await (or to its response)
Receive(s, req) ==
  /\ slots[s].pc = "idle"
  /\ slots' = [slots EXCEPT ![s] =
       Start([IdleSlot EXCEPT !.req = req, !.handler = Dispatch(req)])]
  /\ UNCHANGED <<file, call>>

(***************************************************************************)
(* The continuation of each handler after its read of signal.json.         *)
(***************************************************************************)
\* a changed PostWithData: the duplicate check is left out
PostWithData_unchecked(slot, data, id) ==
  [slot EXCEPT !.pc = "write",
               !.data = Append(data, analyzeString(slot.req.body.s, id))]

\* POST /strings (server.js 223-234): the duplicate check, the analysis, the
\* push, and the call of writeFile
PostWithData(slot, data, id) ==
  IF checkIfStringExists(slot.req.body.s, data)
    THEN Done(slot, ErrorResponse(409))
    ELSE [slot EXCEPT !.pc = "write",
                      !.data = Append(data, analyzeString(slot.req.body.s, id))]

PostAfterRead(slot, f, id) == PostWithData(slot, loadOrEmpty(f), id)

\* a changed GetStringsAfterRead: the filtered list is saved as the store
GetStringsAfterRead_saving(slot, f) ==
  [slot EXCEPT !.pc = "write",
               !.data = QFilter(loadOrEmpty(f), slot.req.query)]

\* GET /strings (server.js 302-345)
GetStringsAfterRead(slot, f) ==
  IF DOMAIN slot.req.query # {}
    THEN Done(slot, Response(200, "filtered",
                             QFilter(loadOrEmpty(f), slot.req.query),
                             slot.req.query))
    ELSE Done(slot, Response(200, "all", loadOrEmpty(f), EmptyObject))

\* the answer of GET /strings/:id for what data.find returned
FoundOr404(slot, found) ==
  IF found = <<>>
    THEN Done(slot, ErrorResponse(404))
    ELSE Done(slot, Response(200, "record", <<Head(found)>>, EmptyObject))

\* GET /strings/:id (server.js 361-376): no catch around the read, and the
\* stored id, a number, is compared with the path parameter, a string
GetByIdAfterRead(slot, f) ==
  IF f.kind # "array"
    THEN Done(slot, ErrorResponse(500))
    ELSE FoundOr404(slot,
           SelectSeq(f.data,
             LAMBDA item : StrictEquals(JSNumber(item.id), JSString(slot.req.path[2]))))

\* the answer of the natural-language route (server.js 431-466)
FilterNLAnswer(slot, data, parsedFilters) ==
  Done(slot, Response(200, "interpreted", NLFilter(data, parsedFilters),
                      parsedFilters))

\* GET /strings/filter-by-natural-language (server.js 419-466)
FilterNLAfterRead(slot, f) ==
  FilterNLAnswer(slot, loadOrEmpty(f),
                 parseNaturalLanguageQuery(slot.req.query["query"]))

\* data.findIndex(item => item.value === v), 1-based; 0 stands for -1
IndexOrNone(at) == IF at = {} THEN 0 ELSE Min(at)

findIndex(data, v) == IndexOrNone({i \in 1..Len(data) : data[i].value = v})

\* data.splice(index, 1)
splice(data, index) ==
  SubSeq(data, 1, index - 1) \o SubSeq(data, index + 1, Len(data))

\* a changed DeleteAt: the index is not tested, and splice(-1, 1) removes
\* the last record
DeleteAt_unchecked(slot, data, index) ==
  [slot EXCEPT !.pc = "write",
               !.data = IF index = 0
                          THEN SubSeq(data, 1, Len(data) - 1)
                          ELSE splice(data, index)]

\* DELETE /strings/:string_value (server.js 496-506)
DeleteAt(slot, data, index) ==
  IF index = 0
    THEN Done(slot, ErrorResponse(404))
    ELSE [slot EXCEPT !.pc = "write", !.data = splice(data, index)]

DeleteAfterRead(slot, f) ==
  DeleteAt(slot, loadOrEmpty(f), findIndex(loadOrEmpty(f), slot.req.path[2]))

AfterRead(slot, f, id) ==
  CASE slot.handler = "postStrings"             -> PostAfterRead(slot, f, id)
    [] slot.handler = "getStrings"              -> GetStringsAfterRead(slot, f)
    [] slot.handler = "getStringById"           -> GetByIdAfterRead(slot, f)
    [] slot.handler = "filterByNaturalLanguage" -> FilterNLAfterRead(slot, f)
    [] slot.handler = "deleteString"            -> DeleteAfterRead(slot, f)

\* the read of a handler completes and the handler runs to its next await
\* (or to its response); id is the draw of Math.random, used by POST alone
ReadDone(s) ==
  /\ slots[s].pc = "read"
  /\ slots[s].handler = "postStrings" => Len(loadOrEmpty(file)) < MaxStore
  /\ \E id \in Ids : slots' = [slots EXCEPT ![s] = AfterRead(slots[s], file, id)]
  /\ UNCHANGED <<file, call>>

\* fs.writeFile completes: the whole file is replaced by the handler's data
\* (server.js 234, 506)
WriteDone(s) ==
  /\ slots[s].pc = "write"
  /\ file' = FileArray(slots[s].data)
  /\ slots' = [slots EXCEPT ![s].pc = "respond"]
  /\ UNCHANGED call

\* a changed WriteFail: the rejected write is taken for a completed one
WriteFail_acknowledged(s) ==
  /\ slots[s].pc = "write"
  /\ slots' = [slots EXCEPT ![s].pc = "respond"]
  /\ UNCHANGED <<file, call>>

\* fs.writeFile rejects: the catch hands the error to the error middleware
\* (server.js 237-239, 509-511, 528-535)
WriteFail(s) ==
  /\ slots[s].pc = "write"
  /\ slots' = [slots EXCEPT ![s] = Done(slots[s], ErrorResponse(500))]
  /\ UNCHANGED <<file, call>>

\* the handler resumes after its write and answers (server.js 236, 508)
Respond(s) ==
  /\ slots[s].pc = "respond"
  /\ slots' = [slots EXCEPT ![s] =
       IF slots[s].handler = "postStrings"
         THEN Done(slots[s],
                Response(201, "record",
                         <<slots[s].data[Len(slots[s].data)]>>, EmptyObject))
         ELSE Done(slots[s], Response(204, "empty", <<>>, EmptyObject))]
  /\ UNCHANGED <<file, call>>

\* GET /me (server.js 164-186): the external fetch succeeds or fails
FetchDone(s) ==
  /\ slots[s].pc = "fetch"
  /\ \E status \in {200, 500} :
       slots' = [slots EXCEPT ![s] =
         Done(slots[s], IF status = 200
                          THEN Response(200, "me", <<>>, EmptyObject)
                          ELSE ErrorResponse(500))]
  /\ UNCHANGED <<file, call>>

\* the response has been delivered and the slot is free again
Close(s) ==
  /\ slots[s].pc = "done"
  /\ slots' = [slots EXCEPT ![s] = IdleSlot]
  /\ UNCHANGED <<file, call>>

(***************************************************************************)
(* The requests that clients send.                                         *)
(***************************************************************************)
ValueA == <<"a">>

ValueB == <<"a", "b">>

BANANA == <<"b", "a", "n", "a", "n", "a">>

NumberPhrase(prefix, digits) == prefix \o digits \o CHARACTERS

PostRequest(body) ==
  [method |-> "POST", path |-> <<SEG_STRINGS>>, query |-> EmptyObject,
   body |-> body]

GetRequest(path, query) ==
  [method |-> "GET", path |-> path, query |-> query, body |-> JSUndefined]

DeleteRequest(v) ==
  [method |-> "DELETE", path |-> <<SEG_STRINGS, v>>, query |-> EmptyObject,
   body |-> JSUndefined]

Obj1(k, v) == Put(EmptyObject, k, v)

Obj2(k1, v1, k2, v2) == Put(Obj1(k1, v1), k2, v2)

PostRequests ==
  {PostRequest(b) :
     b \in {JSString(ValueA), JSString(ValueB), JSString(<<" ">>),
            JSNumber(7), JSUndefined}}

DeleteRequests == {DeleteRequest(v) : v \in {ValueA, ValueB}}

GetStringsRequests ==
  {GetRequest(<<SEG_STRINGS>>, q) :
     q \in {EmptyObject,
            Obj1("min_length", <<"2">>),
            Obj1("is_palindrome", <<"t", "r", "u", "e">>),
            Obj2("min_length", <<"2">>, "max_length", <<"1">>),
            Obj2("min_length", <<"2">>, "limit", <<"1">>),
            Obj1("limit", <<"1">>)}}

GetByIdRequests ==
  {GetRequest(<<SEG_STRINGS, NumberToString(id)>>, EmptyObject) : id \in Ids}

NLQueries ==
  {SINGLE_WORD,
   BANANA,
   NumberPhrase(LONGER_THAN, <<"3">>) \o <<" ">> \o NumberPhrase(SHORTER_THAN, <<"2">>)}

FilterNLRequests ==
  {GetRequest(<<SEG_STRINGS, SEG_FILTER_NL>>, q) :
     q \in {Obj1("query", t) : t \in NLQueries} \cup {EmptyObject}}

OtherRequests ==
  {GetRequest(<<SEG_ME>>, EmptyObject), GetRequest(<<BANANA>>, EmptyObject)}

Requests ==
  PostRequests \cup DeleteRequests \cup GetStringsRequests \cup GetByIdRequests
    \cup FilterNLRequests \cup OtherRequests

(***************************************************************************)
(* The functions applied directly to drawn inputs.                         *)
(***************************************************************************)
NoCall == [fn |-> "", text |-> <<>>, obj |-> EmptyObject, data |-> <<>>,
           done |-> FALSE, out |-> <<>>]

Pending(fn, text, obj, data) ==
  [fn |-> fn, text |-> text, obj |-> obj, data |-> data, done |-> FALSE,
   out |-> <<>>]

\* all sequences of at most n elements of S
RECURSIVE SeqsUpTo(_, _)
SeqsUpTo(S, n) ==
  IF n = 0
    THEN {<<>>}
    ELSE LET shorter == SeqsUpTo(S, n - 1)
         IN  shorter \cup {Append(q, x) : q \in shorter, x \in S}

RECURSIVE Concat(_)
Concat(seqs) == IF seqs = <<>> THEN <<>> ELSE Head(seqs) \o Concat(Tail(seqs))

\* the pieces natural-language queries are put together from: the phrases,
\* in lower and upper case, with several numbers and letters, and text that
\* is no phrase or only the beginning of one
QueryItems ==
  {SINGLE_WORD, PALINDROMIC, CONTAIN_THE_FIRST_VOWEL, BANANA, <<" ">>,
   <<"S", "i", "n", "g", "l", "e", " ", "W", "o", "r", "d">>,
   NumberPhrase(LONGER_THAN, <<"1">>),
   NumberPhrase(LONGER_THAN, <<"0", "2">>),
   NumberPhrase(LONGER_THAN, <<"1", "0">>),
   NumberPhrase(LONGER_THAN, <<>>),
   NumberPhrase(SHORTER_THAN, <<"0">>),
   NumberPhrase(SHORTER_THAN, <<"3">>),
   NumberPhrase(SHORTER_THAN, <<"2">>),
   LONGER_THAN \o <<"7">>,
   CONTAINING_THE_LETTER,
   CONTAINING_THE_LETTER \o <<"a">>,
   CONTAINING_THE_LETTER \o <<"z">>,
   CONTAINING_THE_LETTER \o <<"B">>,
   CONTAINING_THE_LETTER \o <<"5">>}

Queries == {Concat(items) : items \in SeqsUpTo(QueryItems, MaxItems)}

\* the alphabet of the analyzed strings
Alphabet == {"a", "b", "A", "1", " ", "!", NonAsciiLetter}

AnalyzedValues == SeqsUpTo(Alphabet, 3)

\* the values of the records of the collections that are filtered
FilterValues ==
  {<<"a">>, <<"a", "b">>, <<"a", "b", "A">>, <<"a", " ", "b">>, <<"z", "!">>}

IsCollection(vs) == \A i, j \in 1..Len(vs) : vs[i] = vs[j] => i = j

\* collections as the store holds them: records of distinct values
Collections ==
  {[i \in 1..Len(vs) |-> analyzeString(vs[i], 1)] :
     vs \in {w \in SeqsUpTo(FilterValues, MaxRecs) : IsCollection(w)}}

FilterItems ==
  {SINGLE_WORD, PALINDROMIC, CONTAIN_THE_FIRST_VOWEL,
   NumberPhrase(LONGER_THAN, <<"1">>),
   NumberPhrase(LONGER_THAN, <<"2">>),
   NumberPhrase(SHORTER_THAN, <<"3">>),
   NumberPhrase(SHORTER_THAN, <<"4">>),
   CONTAINING_THE_LETTER \o <<"B">>}

FilterQueries == {Concat(items) : items \in SeqsUpTo(FilterItems, MaxItems)}

Optional(key, texts) == {EmptyObject} \cup {Obj1(key, t) : t \in texts}

Merge(f, g) == [k \in (DOMAIN f) \cup (DOMAIN g) |-> IF k \in DOMAIN f THEN f[k] ELSE g[k]]

\* req.query objects of GET /strings
QueryObjects ==
  {Merge(a, Merge(b, Merge(c, Merge(d, e)))) :
     a \in Optional("is_palindrome", {TRUE_TEXT, <<"n", "o">>}),
     b \in Optional("min_length", {<<"2">>, <<"x">>}),
     c \in Optional("max_length", {<<"2", "b">>, <<"1">>}),
     d \in Optional("word_count", {<<" ", "1">>}),
     e \in Optional("contains_character", {<<"a">>, <<"a", "b">>})}

UnitInit ==
  /\ file = FileMissing
  /\ slots = [s \in Slots |-> IdleSlot]
  /\ call \in
       {Pending("analyzeString", v, EmptyObject, <<>>) : v \in AnalyzedValues}
         \cup {Pending("parseNaturalLanguageQuery", q, EmptyObject, <<>>) :
                 q \in Queries}
         \cup {Pending("NLFilter", q, EmptyObject, d) :
                 q \in FilterQueries, d \in Collections}
         \cup {Pending("QFilter", <<>>, o, d) :
                 o \in QueryObjects, d \in Collections}

Return(out) == call' = [call EXCEPT !.done = TRUE, !.out = out]

CallAnalyzeString ==
  /\ call.fn = "analyzeString" /\ ~call.done
  /\ \E id \in Ids : Return(analyzeString(call.text, id))
  /\ UNCHANGED <<file, slots>>

CallParse ==
  /\ call.fn = "parseNaturalLanguageQuery" /\ ~call.done
  /\ Return(parseNaturalLanguageQuery(call.text))
  /\ UNCHANGED <<file, slots>>

\* the natural-language handler from the parse to the filtered list
\* (server.js 401-457), without the read: the chain is reached with parsed
\* filters that are neither empty nor conflicting
NLFilterReturn(parsedFilters) ==
  /\ DOMAIN parsedFilters # {}
  /\ ~hasConflictingFilters(parsedFilters)
  /\ call' = [call EXCEPT !.done = TRUE, !.obj = parsedFilters,
                          !.out = NLFilter(call.data, parsedFilters)]

CallNLFilter ==
  /\ call.fn = "NLFilter" /\ ~call.done
  /\ NLFilterReturn(parseNaturalLanguageQuery(call.text))
  /\ UNCHANGED <<file, slots>>

\* the filter chain of GET /strings (server.js 302-332)
CallQFilter ==
  /\ call.fn = "QFilter" /\ ~call.done
  /\ Return(QFilter(call.data, call.obj))
  /\ UNCHANGED <<file, slots>>

UnitNext == CallAnalyzeString \/ CallParse \/ CallNLFilter \/ CallQFilter

UnitSpec == UnitInit /\ [][UnitNext]_vars

(***************************************************************************)
(* The server.                                                             *)
(***************************************************************************)
Init ==
  /\ file \in {FileMissing, FileInvalid, FileNonArray, FileArray(<<>>)}
  /\ slots = [s \in Slots |-> IdleSlot]
  /\ call = NoCall

Next ==
  \E s \in Slots :
    \/ \E req \in Requests : Receive(s, req)
    \/ ReadDone(s)
    \/ WriteDone(s)
    \/ WriteFail(s)
    \/ Respond(s)
    \/ FetchDone(s)
    \/ Close(s)

Spec == Init /\ [][Next]_vars

(***************************************************************************)
(* Properties of the server.                                               *)
(***************************************************************************)
\* the values of the records of a store
StoredValues(f) == {loadOrEmpty(f)[i].value : i \in 1..Len(loadOrEmpty(f))}

\* the value a mutating request is about
ReqValue(slot) ==
  IF slot.handler = "postStrings" THEN slot.req.body.s ELSE slot.req.path[2]

\* the handler in slot s resumes after its read in this step
ReadStep(s) == slots[s].pc = "read" /\ slots'[s].pc # "read"

\* the request in slot s gets its response in this step
Answered(s, handler, status) ==
  /\ slots[s].pc # "done"
  /\ slots'[s].pc = "done"
  /\ slots'[s].handler = handler
  /\ slots'[s].res.status = status

\* C1: a POST /strings whose value is the value of a stored record when the
\* handler reads the store is answered 409, and a POST that is answered 409
\* has written nothing: it is answered in the step after its read, which
\* leaves the store as it is.
C1_DuplicateRejected ==
  [][\A s \in Slots :
       /\ (/\ ReadStep(s)
           /\ slots[s].handler = "postStrings"
           /\ slots[s].req.body.s \in StoredValues(file))
            => (slots'[s].pc = "done" /\ slots'[s].res.status = 409)
       /\ Answered(s, "postStrings", 409)
            => (slots[s].pc = "read" /\ slots[s].data = <<>> /\ file' = file)]_vars

C1_Witness ==
  \E s \in Slots :
    /\ slots[s].pc = "done"
    /\ slots[s].handler = "postStrings"
    /\ slots[s].res.status = 409
    /\ Len(loadOrEmpty(file)) >= 2
    /\ slots[s].req.body.s \in StoredValues(file)

\* C2: a DELETE /strings/v whose v is the value of no stored record when the
\* handler reads the store is answered 404, and a DELETE that is answered 404
\* has written nothing: it is answered in the step after its read, which
\* leaves the store as it is.
C2_DeleteAbsentNotFound ==
  [][\A s \in Slots :
       /\ (/\ ReadStep(s)
           /\ slots[s].handler = "deleteString"
           /\ slots[s].req.path[2] \notin StoredValues(file))
            => (slots'[s].pc = "done" /\ slots'[s].res.status = 404)
       /\ Answered(s, "deleteString", 404)
            => (slots[s].pc = "read" /\ slots[s].data = <<>> /\ file' = file)]_vars

C2_Witness ==
  \E s \in Slots :
    /\ slots[s].pc = "done"
    /\ slots[s].handler = "deleteString"
    /\ slots[s].res.status = 404
    /\ Len(loadOrEmpty(file)) >= 1
    /\ slots[s].req.path[2] \notin StoredValues(file)

\* C3: in every reachable state no two records of the store have the same
\* value, whatever the interleaving of the POST and DELETE handlers.
C3_ValuesUnique ==
  \A i, j \in 1..Len(loadOrEmpty(file)) :
    loadOrEmpty(file)[i].value = loadOrEmpty(file)[j].value => i = j

\* two POSTs of the same value have both been answered 201 (their reads
\* came before either write) and the store holds two records
C3_Witness ==
  /\ \A s \in Slots :
       /\ slots[s].pc = "done"
       /\ slots[s].handler = "postStrings"
       /\ slots[s].res.status = 201
       /\ slots[s].req.body.s = ValueA
  /\ Len(loadOrEmpty(file)) = 2

\* the request in slot t has written and is, or will be, answered 201 / 204
Written(t) ==
  \/ slots[t].pc = "respond"
  \/ slots[t].pc = "done" /\ slots[t].res.status \in {201, 204}

\* C4: no update is lost.  When the write of one mutating request lands
\* while another mutating request, about a different value, has written
\* already, the effect of the other is kept: a record it inserted, which the
\* store holds, is still there, and a record it deleted, which the store no
\* longer holds, is not back.
C4_NoLostUpdate ==
  [][\A s, t \in Slots :
       (/\ s # t
        /\ slots[s].pc = "write"
        /\ slots'[s].pc = "respond"
        /\ Written(t)
        /\ ReqValue(slots[s]) # ReqValue(slots[t]))
         => /\ (slots[t].handler = "postStrings"
                  /\ ReqValue(slots[t]) \in StoredValues(file))
                 => ReqValue(slots[t]) \in StoredValues(file')
            /\ (slots[t].handler = "deleteString"
                  /\ ReqValue(slots[t]) \notin StoredValues(file))
                 => ReqValue(slots[t]) \notin StoredValues(file')]_vars

\* the criteria that the parameters of GET /strings encode are conflicting
QConflicting(query) ==
  /\ Has(query, "min_length")
  /\ Has(query, "max_length")
  /\ ~parseInt(query["min_length"]).nan
  /\ ~parseInt(query["max_length"]).nan
  /\ parseInt(query["min_length"]).n > parseInt(query["max_length"]).n

IsGetStrings(req) == req.method = "GET" /\ req.path = <<SEG_STRINGS>>

IsGetFilterNL(req) ==
  req.method = "GET" /\ req.path = <<SEG_STRINGS, SEG_FILTER_NL>>

\* C5 (the structured path): a GET /strings whose min_length and max_length
\* are conflicting is rejected as ConflictingCriteria (422) and gets no
\* filtered list.
C5_ConflictingNeverApplied ==
  \A s \in Slots :
    (/\ slots[s].pc = "done"
     /\ IsGetStrings(slots[s].req)
     /\ QConflicting(slots[s].req.query))
      => (slots[s].res.status = 422 /\ slots[s].res.kind = "error")

\* a natural-language query is put to the route as its documentation says
HasQueryText(req) ==
  /\ Has(req.query, "query")
  /\ trim(req.query["query"]) # <<>>

\* C6: a GET /strings/filter-by-natural-language whose query matches a phrase
\* and is not conflicting is handled by the natural-language handler and
\* answered 200 with data, count and interpreted_query.
C6_NLRouteReached ==
  \A s \in Slots :
    (/\ slots[s].pc = "done"
     /\ IsGetFilterNL(slots[s].req)
     /\ HasQueryText(slots[s].req)
     /\ DOMAIN parseNaturalLanguageQuery(slots[s].req.query["query"]) # {}
     /\ ~hasConflictingFilters(parseNaturalLanguageQuery(slots[s].req.query["query"])))
      => /\ slots[s].handler = "filterByNaturalLanguage"
         /\ slots[s].res.status = 200
         /\ slots[s].res.kind = "interpreted"

\* the stored records whose id, written as a path parameter, is the text
RecordsWithId(f, text) ==
  SelectSeq(loadOrEmpty(f), LAMBDA item : NumberToString(item.id) = text)

\* C7: GET /strings/:id with the id of a stored record is answered 200 with
\* that record, and it is answered 404 only when no stored record has the id.
C7_LookupById ==
  [][\A s \in Slots :
       (/\ ReadStep(s)
        /\ slots[s].handler = "getStringById"
        /\ file.kind = "array")
         => /\ RecordsWithId(file, slots[s].req.path[2]) # <<>>
                 => /\ slots'[s].res.status = 200
                    /\ slots'[s].res.data
                         = <<Head(RecordsWithId(file, slots[s].req.path[2]))>>
            /\ slots'[s].res.status = 404
                 => RecordsWithId(file, slots[s].req.path[2]) = <<>>]_vars

(***************************************************************************)
(* What the phrases of a query are, stated on the text of the query.       *)
(***************************************************************************)
\* the lower-case text pat stands in q at index i, the case of q ignored
OccursAt(q, pat, i) ==
  /\ i + Len(pat) - 1 <= Len(q)
  /\ \A j \in 1..Len(pat) : ToLowerChar(q[i + j - 1]) = pat[j]

Occurs(q, pat) == \E i \in 1..Len(q) : OccursAt(q, pat, i)

\* the runs of digits of q
DigitTexts(q) ==
  {SubSeq(q, a, b) : a \in 1..Len(q), b \in 1..Len(q)}
    \cap {d \in Seq(Range(Digits)) : Len(d) >= 1}

RECURSIVE Decimal(_)
Decimal(d) ==
  IF d = <<>>
    THEN 0
    ELSE 10 * Decimal(SubSeq(d, 1, Len(d) - 1)) + DigitVal(d[Len(d)])

\* the numbers N for which "<prefix>N characters" stands in q at index i
NumbersAt(q, prefix, i) ==
  {Decimal(d) : d \in {t \in DigitTexts(q) : OccursAt(q, prefix \o t \o CHARACTERS, i)}}

NumbersIn(q, prefix) == UNION {NumbersAt(q, prefix, i) : i \in 1..Len(q)}

\* the letters c for which "containing the letter c" stands in q at index i
LettersAt(q, i) ==
  {c \in Range(LowerLetters) : OccursAt(q, CONTAINING_THE_LETTER \o <<c>>, i)}

LettersIn(q) == UNION {LettersAt(q, i) : i \in 1..Len(q)}

\* q matches none of the six phrases
NoPhrase(q) ==
  /\ ~Occurs(q, SINGLE_WORD)
  /\ ~Occurs(q, PALINDROMIC)
  /\ ~Occurs(q, CONTAIN_THE_FIRST_VOWEL)
  /\ NumbersIn(q, LONGER_THAN) = {}
  /\ NumbersIn(q, SHORTER_THAN) = {}
  /\ LettersIn(q) = {}

\* C10: a natural-language query that matches none of the phrases is
\* rejected as UnparseableQuery (400) and gets no filtered list; a request
\* is reported conflicting (422) only if its query parsed to criteria.
C10_UnparseableRejected ==
  \A s \in Slots :
    (/\ slots[s].pc = "done"
     /\ IsGetFilterNL(slots[s].req)
     /\ HasQueryText(slots[s].req))
      => /\ NoPhrase(slots[s].req.query["query"])
              => (slots[s].res.status = 400 /\ slots[s].res.kind = "error")
         /\ slots[s].res.status = 422
              => ~NoPhrase(slots[s].req.query["query"])

(***************************************************************************)
(* Properties of the functions.                                            *)
(***************************************************************************)
\* the text t stands somewhere in the value v
HasText(v, t) ==
  \E i \in 0..(Len(v) - Len(t)) : \A j \in 1..Len(t) : v[i + j] = t[j]

\* item satisfies every predicate present in parsed filters c
MeetsNL(item, c) ==
  /\ Has(c, "is_palindrome") => item.properties.is_palindrome = c["is_palindrome"]
  /\ Has(c, "min_length") => item.properties.length >= c["min_length"]
  /\ Has(c, "max_length") => item.properties.length <= c["max_length"]
  /\ Has(c, "word_count") => item.properties.word_count = c["word_count"]
  /\ Has(c, "contains_character") => HasText(item.value, c["contains_character"])

Numeric(q, key) == Has(q, key) /\ ~parseInt(q[key]).nan

\* item satisfies every predicate that the parameters q of GET /strings
\* encode: a number that does not parse is no constraint
MeetsQ(item, q) ==
  /\ Has(q, "is_palindrome")
       => item.properties.is_palindrome = (q["is_palindrome"] = TRUE_TEXT)
  /\ Numeric(q, "min_length") => item.properties.length >= parseInt(q["min_length"]).n
  /\ Numeric(q, "max_length") => item.properties.length <= parseInt(q["max_length"]).n
  /\ Numeric(q, "word_count") => item.properties.word_count = parseInt(q["word_count"]).n
  /\ Has(q, "contains_character") => HasText(item.value, q["contains_character"])

Meets(item) ==
  IF call.fn = "NLFilter" THEN MeetsNL(item, call.obj) ELSE MeetsQ(item, call.obj)

\* the index of the record of value v in the collection
IndexOf(data, v) == CHOOSE i \in 1..Len(data) : data[i].value = v

\* the orders in which the five predicates can be applied
Orders == {p \in [1..5 -> 1..5] : \A i, j \in 1..5 : p[i] = p[j] => i = j}

AppliedIn(order) ==
  IF call.fn = "NLFilter"
    THEN NLApply(order, call.data, call.obj)
    ELSE QApply(order, call.data, call.obj)

FilterCall ==
  /\ call.done
  /\ call.fn \in {"NLFilter", "QFilter"}
  /\ call.fn = "QFilter" => ~QConflicting(call.obj)

\* C8: for a collection and criteria that are not conflicting, the filter
\* returns exactly the records that satisfy every predicate present, each
\* once and in the order of the collection, and every order of applying the
\* five predicates gives that result.
C8_FilterIsIntersection ==
  FilterCall =>
    /\ \A i \in 1..Len(call.data) :
         Meets(call.data[i]) <=> call.data[i] \in Range(call.out)
    /\ Range(call.out) \subseteq Range(call.data)
    /\ \A i, j \in 1..Len(call.out) :
         i < j => IndexOf(call.data, call.out[i].value)
                    < IndexOf(call.data, call.out[j].value)
    /\ \A order \in Orders : AppliedIn(order) = call.out

\* of three records the first and the last are kept by two predicates
C8_Witness ==
  /\ FilterCall
  /\ call.fn = "NLFilter"
  /\ Cardinality(DOMAIN call.obj) >= 2
  /\ Len(call.data) = 3
  /\ call.out = <<call.data[1], call.data[3]>>

ParseCall == call.done /\ call.fn = "parseNaturalLanguageQuery"

Field(obj, key, val) == Has(obj, key) /\ obj[key] = val

\* the index of the leftmost occurrence of a number phrase / a letter phrase
FirstNumberAt(q, prefix) ==
  Min({i \in 1..Len(q) : NumbersAt(q, prefix, i) # {}})

FirstLetterAt(q) == Min({i \in 1..Len(q) : LettersAt(q, i) # {}})

\* the numbers a claim about q and its parsed filters speaks of
NumbersOf(q, out) ==
  NumbersIn(q, LONGER_THAN) \cup NumbersIn(q, SHORTER_THAN)
    \cup (IF Has(out, "min_length") THEN {out["min_length"] - 1} ELSE {})
    \cup (IF Has(out, "max_length") THEN {out["max_length"] + 1} ELSE {})

\* C9 as it is stated: each field is set iff its phrase occurs, whatever
\* else the query holds.
C9_EachPhraseAlone ==
  ParseCall =>
    /\ Field(call.out, "word_count", 1) <=> Occurs(call.text, SINGLE_WORD)
    /\ Has(call.out, "word_count") => call.out["word_count"] = 1
    /\ Field(call.out, "is_palindrome", TRUE) <=> Occurs(call.text, PALINDROMIC)
    /\ \A N \in NumbersOf(call.text, call.out) :
         /\ Field(call.out, "min_length", N + 1)
              <=> N \in NumbersIn(call.text, LONGER_THAN)
         /\ Field(call.out, "max_length", N - 1)
              <=> N \in NumbersIn(call.text, SHORTER_THAN)
    /\ \A c \in Range(LowerLetters) :
         Field(call.out, "contains_character", <<c>>) <=> c \in LettersIn(call.text)

\* C9, amended: word_count and is_palindrome are set iff their phrases
\* occur; min_length (max_length) is set iff some "longer (shorter) than N
\* characters" occurs, to N + 1 (N - 1) for the N of the leftmost one;
\* contains_character is 'a' when "contain the first vowel" occurs, and
\* otherwise is set iff some "containing the letter c" occurs, to the c of
\* the leftmost one; a query that matches no phrase sets no field.
C9_PhrasesSetFields ==
  ParseCall =>
    /\ DOMAIN call.out \subseteq RecognizedKeys
    /\ Has(call.out, "word_count") <=> Occurs(call.text, SINGLE_WORD)
    /\ Has(call.out, "word_count") => call.out["word_count"] = 1
    /\ Has(call.out, "is_palindrome") <=> Occurs(call.text, PALINDROMIC)
    /\ Has(call.out, "is_palindrome") => call.out["is_palindrome"] = TRUE
    /\ Has(call.out, "min_length") <=> NumbersIn(call.text, LONGER_THAN) # {}
    /\ Has(call.out, "min_length")
         => call.out["min_length"] - 1
              \in NumbersAt(call.text, LONGER_THAN,
                            FirstNumberAt(call.text, LONGER_THAN))
    /\ Has(call.out, "max_length") <=> NumbersIn(call.text, SHORTER_THAN) # {}
    /\ Has(call.out, "max_length")
         => call.out["max_length"] + 1
              \in NumbersAt(call.text, SHORTER_THAN,
                            FirstNumberAt(call.text, SHORTER_THAN))
    /\ Occurs(call.text, CONTAIN_THE_FIRST_VOWEL)
         => Field(call.out, "contains_character", <<"a">>)
    /\ ~Occurs(call.text, CONTAIN_THE_FIRST_VOWEL)
         => /\ Has(call.out, "contains_character") <=> LettersIn(call.text) # {}
            /\ Has(call.out, "contains_character")
                 => call.out["contains_character"]
                      \in {<<c>> : c \in LettersAt(call.text, FirstLetterAt(call.text))}
    /\ NoPhrase(call.text) => call.out = EmptyObject

\* a query holds "contain the first vowel" and "containing the letter c"
\* for a c other than 'a', and contains_character is 'a'
C9_Witness ==
  /\ ParseCall
  /\ Occurs(call.text, CONTAIN_THE_FIRST_VOWEL)
  /\ LettersIn(call.text) # {}
  /\ "a" \notin LettersIn(call.text)
  /\ Field(call.out, "contains_character", <<"a">>)

(***************************************************************************)
(* The store as the handlers find it, and the ids of its records.          *)
(***************************************************************************)
\* C11: a handler that loads the store when it is missing, is not JSON or is
\* not an array goes on as it does on the empty collection, and is not
\* answered 500: a lookup or a deletion then ends in 404.
C11_StoreFaultsAreEmpty ==
  [][\A s \in Slots :
       (ReadStep(s) /\ file.kind # "array")
         => /\ slots'[s].res.status # 500
            /\ \E id \in Ids :
                 slots'[s] = AfterRead(slots[s], FileArray(<<>>), id)]_vars

\* C12: in every reachable state no two records of the store have the same
\* id.
C12_IdsUnique ==
  \A i, j \in 1..Len(loadOrEmpty(file)) :
    loadOrEmpty(file)[i].id = loadOrEmpty(file)[j].id => i = j

\* the request carries one of the five parameter names of GET /strings
NamesRecognized(query) ==
  \E key \in DOMAIN query :
    key \in {"is_palindrome", "min_length", "max_length", "word_count",
             "contains_character"}

\* C13: GET /strings is answered 400 exactly when the request has parameters
\* and none of them has a recognized name; every other GET /strings, with no
\* parameter or with a recognized name among others, is answered 200.
C13_RejectsOnlyUnrecognized ==
  \A s \in Slots :
    (slots[s].pc = "done" /\ IsGetStrings(slots[s].req))
      => /\ slots[s].res.status \in {200, 400}
         /\ slots[s].res.status = 400
              <=> (/\ DOMAIN slots[s].req.query # {}
                   /\ ~NamesRecognized(slots[s].req.query))

\* a request with a recognized and an unrecognized name has been answered
\* 200 with the filtered list
C13_Witness ==
  \E s \in Slots :
    /\ slots[s].pc = "done"
    /\ IsGetStrings(slots[s].req)
    /\ NamesRecognized(slots[s].req.query)
    /\ Has(slots[s].req.query, "limit")
    /\ slots[s].res.status = 200
    /\ slots[s].res.kind = "filtered"
    /\ Len(slots[s].res.data) >= 1

AnalyzeCall == call.done /\ call.fn = "analyzeString"

\* a letter or a digit of any script
IsAlphanumeric(c) == IsAsciiAlnum(c) \/ c = NonAsciiLetter

\* the value with its letters and digits of any script alone, lower-cased
AlphanumericsOf(value) == toLowerCase(SelectSeq(value, IsAlphanumeric))

\* C14: analyzeString sets is_palindrome to true iff the letters and digits
\* of the value, of any script and lower-cased, read the same in both
\* directions; a value with no letter and no digit is a palindrome.
C14_PalindromeAnyScript ==
  AnalyzeCall =>
    /\ call.out.properties.is_palindrome
         <=> AlphanumericsOf(call.text) = Reverse(AlphanumericsOf(call.text))
    /\ AlphanumericsOf(call.text) = <<>> => call.out.properties.is_palindrome

\* String(n) for an integer n
SignedText(n) == IF n < 0 THEN <<"-">> \o NumberToString(0 - n) ELSE NumberToString(n)

\* the query parameters of GET /strings that encode parsed criteria:
\* is_palindrome as "true" / "false", the numbers as decimal texts, the
\* character as it is
ParameterText(key, val) ==
  CASE key = "is_palindrome" -> IF val THEN TRUE_TEXT ELSE <<"f", "a", "l", "s", "e">>
    [] key = "contains_character" -> val
    [] OTHER -> SignedText(val)

Encoded(criteria) == [key \in DOMAIN criteria |-> ParameterText(key, criteria[key])]

\* C15: a GET /strings/filter-by-natural-language whose query parses to
\* criteria that are neither empty nor conflicting is answered with the
\* records, in the order, that GET /strings gives on the same store for the
\* parameters that encode the criteria.
C15_PathsAgree ==
  [][\A s \in Slots :
       (/\ ReadStep(s)
        /\ IsGetFilterNL(slots[s].req)
        /\ HasQueryText(slots[s].req)
        /\ DOMAIN parseNaturalLanguageQuery(slots[s].req.query["query"]) # {}
        /\ ~hasConflictingFilters(parseNaturalLanguageQuery(slots[s].req.query["query"])))
         => slots'[s].res.data
              = QFilter(loadOrEmpty(file),
                        Encoded(parseNaturalLanguageQuery(slots[s].req.query["query"])))]_vars

\* new is old with one record of value v added at the end
AppendedTo(old, new, v) ==
  /\ Len(new) = Len(old) + 1
  /\ SubSeq(new, 1, Len(old)) = old
  /\ new[Len(new)].value = v

\* new is old without one of its records of value v, the others in place
RemovedFrom(old, new, v) ==
  \E i \in 1..Len(old) :
    /\ old[i].value = v
    /\ new = SubSeq(old, 1, i - 1) \o SubSeq(old, i + 1, Len(old))

\* C16: the write of a POST /strings that is then answered 201 leaves every
\* record of the store in its place and adds one record, of the submitted
\* value, at the end; the write of a DELETE that is then answered 204 removes
\* one record of the given value and leaves the others in their order.
C16_AppendOrRemoveOnly ==
  [][\A s \in Slots :
       (slots[s].pc = "write" /\ slots'[s].pc = "respond")
         => IF slots[s].handler = "postStrings"
              THEN AppendedTo(loadOrEmpty(file), loadOrEmpty(file'),
                              slots[s].req.body.s)
              ELSE RemovedFrom(loadOrEmpty(file), loadOrEmpty(file'),
                               slots[s].req.path[2])]_vars

\* the store holds what the request of the slot asked for: the record of its
\* value after a POST, no record of its value after a DELETE
EffectIn(slot, f) ==
  IF slot.handler = "postStrings"
    THEN ReqValue(slot) \in StoredValues(f)
    ELSE ReqValue(slot) \notin StoredValues(f)

\* the request in slot s is answered 201 or 204 in this step
Acknowledged(s) ==
  Answered(s, "postStrings", 201) \/ Answered(s, "deleteString", 204)

\* the write of the request in slot s ends in this step without completing
WriteFailed(s) == slots[s].pc = "write" /\ slots'[s].pc \notin {"write", "respond"}

LengthCriteria ==
  {Merge(a, b) : a \in {EmptyObject} \cup {Obj1("min_length", n) : n \in 0..3},
                 b \in {EmptyObject} \cup {Obj1("max_length", n) : n \in (0 - 1)..3}}

\* C17: a natural-language query with one "longer than N characters" and one
\* "shorter than M characters" is answered 422 exactly when N + 1 > M - 1,
\* and is otherwise accepted with min_length = N + 1 and max_length = M - 1;
\* hasConflictingFilters is true iff min_length and max_length are both
\* present and min_length > max_length.
C17_ConflictIffEmptyRange ==
  /\ \A s \in Slots :
       (/\ slots[s].pc = "done"
        /\ IsGetFilterNL(slots[s].req)
        /\ HasQueryText(slots[s].req))
         => \A N \in NumbersIn(slots[s].req.query["query"], LONGER_THAN),
               M \in NumbersIn(slots[s].req.query["query"], SHORTER_THAN) :
              (/\ NumbersIn(slots[s].req.query["query"], LONGER_THAN) = {N}
               /\ NumbersIn(slots[s].req.query["query"], SHORTER_THAN) = {M})
                => IF N + 1 > M - 1
                     THEN slots[s].res.status = 422
                     ELSE /\ slots[s].res.status = 200
                          /\ Field(slots[s].res.filters, "min_length", N + 1)
                          /\ Field(slots[s].res.filters, "max_length", M - 1)
  /\ \A c \in LengthCriteria :
       hasConflictingFilters(c)
         <=> (/\ Has(c, "min_length")
              /\ Has(c, "max_length")
              /\ c["min_length"] > c["max_length"])

\* the request in slot s gets, in this step, the answer of a read-only or a
\* rejected request: any answer to a GET, or 400, 404 or 409
AnsweredUnchanged(s) ==
  /\ slots[s].pc # "done"
  /\ slots'[s].pc = "done"
  /\ \/ slots'[s].req.method = "GET"
     \/ slots'[s].res.status \in {400, 404, 409}

\* C19: a GET, and a POST or DELETE that ends in 400, 404 or 409, never
\* writes the store, in any interleaving: it is answered straight from its
\* dispatch or from its read, in a step that leaves the store as it is, and
\* every step that changes the store is the completed write of a POST or a
\* DELETE, which no GET ever starts.
C19_RejectedNeverWrite ==
  [][/\ file' # file
          => \E s \in Slots :
               /\ slots[s].pc = "write"
               /\ slots'[s].pc = "respond"
               /\ slots[s].req.method \in {"POST", "DELETE"}
     /\ \A s \in Slots :
          /\ AnsweredUnchanged(s)
               => (slots[s].pc \in {"idle", "read", "fetch"} /\ file' = file)
          /\ slots'[s].pc \in {"write", "respond"}
               => slots'[s].req.method \in {"POST", "DELETE"}]_vars

\* with a record in the store, a filtered GET /strings has been answered 200
\* with it and a POST of its value has been answered 409
C19_Witness ==
  \E s, t \in Slots :
    /\ slots[s].pc = "done"
    /\ slots[s].handler = "getStrings"
    /\ slots[s].res.status = 200
    /\ Len(slots[s].res.data) >= 1
    /\ slots[t].pc = "done"
    /\ slots[t].handler = "postStrings"
    /\ slots[t].res.status = 409
    /\ Len(loadOrEmpty(file)) >= 1
    /\ slots[s].res.data = loadOrEmpty(file)

\* C20: when a query holds "contain the first vowel" and "containing the
\* letter c", contains_character is 'a' whatever c is and whichever phrase
\* comes first; when it holds "containing the letter c" for one c and not
\* "contain the first vowel", contains_character is c in lower case.
C20_FirstVowelOverridesLetter ==
  ParseCall =>
    /\ (/\ Occurs(call.text, CONTAIN_THE_FIRST_VOWEL)
        /\ LettersIn(call.text) # {})
         => Field(call.out, "contains_character", <<"a">>)
    /\ \A c \in LettersIn(call.text) :
         (/\ LettersIn(call.text) = {c}
          /\ ~Occurs(call.text, CONTAIN_THE_FIRST_VOWEL))
           => Field(call.out, "contains_character", <<c>>)

\* "contain the first vowel" stands before "containing the letter c", c is
\* not 'a', and contains_character is 'a'
C20_Witness ==
  /\ ParseCall
  /\ LettersIn(call.text) # {}
  /\ "a" \notin LettersIn(call.text)
  /\ \E i \in 1..Len(call.text) :
       /\ OccursAt(call.text, CONTAIN_THE_FIRST_VOWEL, i)
       /\ i < FirstLetterAt(call.text)
  /\ Field(call.out, "contains_character", <<"a">>)

====
